---------------------------- MODULE Spec2Model ----------------------------
(***************************************************************************)
(* A model of AIToolbox/Utils/Polytope.hpp:                                *)
(*   - findVerticesNaive: the naive vertex enumeration driven by a         *)
(*     SubsetEnumerator and a dense linear solve per subset;               *)
(*   - computeOptimisticValue: the LP bound on the value of a point.       *)
(* Reals are modelled exactly, as rationals <<numerator, denominator>>     *)
(* with a positive denominator; <<0, 0>> stands for a NaN.                 *)
(***************************************************************************)
EXTENDS Integers, Sequences, FiniteSets

VARIABLES
    \* ---- findVerticesNaive ----
    S,          \* size of every hyperplane of both ranges (line 46 reads it off *alphasBegin)
    olds,       \* [alphasBegin, alphasEnd)
    news,       \* [beginNew, endNew)
    pc,         \* position in findVerticesNaive
    newVIt,     \* position of the outer loop in news (1-based)
    enumBuilt,  \* whether the SubsetEnumerator has been constructed
    ids,        \* the enumerator's current subset (*enumerator)
    last,       \* first position changed by the last advance (0-based)
    m,          \* the matrix m, rows 0..S kept at positions 1..S+1
    boundary,   \* the vector boundary
    b,          \* the vector b
    counter,    \* number of rows handed to the solver by the last build
    result,     \* the vector result
    vertices,   \* the returned list
    \* ---- what the run did so far (history) ----
    sysA,       \* m.topRows(counter) as handed to the last solve
    sysB,       \* b.head(counter) as handed to the last solve
    evaluated,  \* subsets solved so far for the current new hyperplane
    solves,     \* number of linear solves so far
    evals,      \* number of linear solves for the current new hyperplane
    topRow,     \* highest row index of m and b written so far
    exitVia,    \* how the inner loop was last left: "none", "break", "invalid"
    \* ---- computeOptimisticValue ----
    p,          \* the query point (numerators over Grid)
    pv,         \* [pvBegin, pvEnd): pairs <<point, value>>
    ndebug,     \* whether the build defines NDEBUG (assert compiled out)
    opc,        \* position in computeOptimisticValue
    lp,         \* the LP object
    it,         \* position of the constraint loop in pv (1-based)
    lpBuilt,    \* whether the LP object has been constructed
    solution,   \* whether lp.solve returned a solution
    retval      \* the double retval

fvVars == <<S, olds, news, pc, newVIt, enumBuilt, ids, last, m, boundary, b,
            counter, result, vertices, sysA, sysB, evaluated, solves, evals, topRow,
            exitVia>>
ovVars == <<p, pv, ndebug, opc, lp, it, lpBuilt, solution, retval>>
vars == <<fvVars, ovVars>>

---------------------------------------------------------------------------
(* Bounds of the model.                                                    *)
MaxOld == 3
MaxNew == 1
MaxPairs == 2
\* Points of the simplex have the coordinates 0/Grid, 1/Grid, ..., Grid/Grid.
Grid == 2

\* The dimensions S the vertex enumeration is run with.
Dims == {2, 3}
\* The hyperplanes the ranges are drawn from: the first S coefficients of these.
\* They hold pairs crossing inside the simplex ((3,1) and (1,2)), pairs crossing
\* outside it ((3,3) and (1,2)), pairs meeting at a corner ((3,3) and (3,1)) and,
\* a hyperplane taken twice, pairs that give a singular system.
BasePlanes == {<<1, 2, 3>>, <<3, 1, 2>>, <<3, 3, 1>>}
Planes(s) == {SubSeq(bp, 1, s) : bp \in BasePlanes}
\* Sequences over a set with a length of at most n.
SeqsUpTo(set, n) == UNION {[1..l -> set] : l \in 0..n}

---------------------------------------------------------------------------
(* Rationals.                                                              *)
Abs(x) == IF x < 0 THEN -x ELSE x
RECURSIVE GCD(_, _)
GCD(x, y) == IF y = 0 THEN x ELSE GCD(y, x % y)
\* n/d in lowest terms with a positive denominator; d = 0 gives the NaN.
Rat(n, d) ==
    IF d = 0 THEN <<0, 0>>
    ELSE LET g == GCD(Abs(n), Abs(d))
             sg == IF d < 0 THEN -1 ELSE 1
         IN <<(sg * n) \div g, (sg * d) \div g>>
NaN == <<0, 0>>
IsNaN(r) == r[2] = 0
\* IEEE comparison: any comparison with a NaN is false.
RatLeq(r1, r2) == ~IsNaN(r1) /\ ~IsNaN(r2) /\ r1[1] * r2[2] <= r2[1] * r1[2]
RatSum(rs) ==
    LET f[i \in 0..Len(rs)] ==
            IF i = 0 THEN <<0, 1>>
            ELSE IF IsNaN(f[i-1]) \/ IsNaN(rs[i]) THEN NaN
            ELSE Rat(f[i-1][1] * rs[i][2] + rs[i][1] * f[i-1][2], f[i-1][2] * rs[i][2])
    IN f[Len(rs)]

---------------------------------------------------------------------------
(* The dense linear solver (Eigen's colPivHouseholderQr().solve).          *)
Minor(M, j) ==
    [r \in 1..Len(M)-1 |-> [c \in 1..Len(M)-1 |-> M[r+1][IF c < j THEN c ELSE c+1]]]
RECURSIVE Det(_)
Det(M) ==
    IF Len(M) = 1 THEN M[1][1]
    ELSE LET f[j \in 0..Len(M)] ==
                 IF j = 0 THEN 0
                 ELSE f[j-1] + (IF j % 2 = 1 THEN 1 ELSE -1) * M[1][j] * Det(Minor(M, j))
         IN f[Len(M)]
ReplaceCol(M, j, col) ==
    [r \in 1..Len(M) |-> [c \in 1..Len(M) |-> IF c = j THEN col[r] ELSE M[r][c]]]
\* The unique solution of a square nonsingular system (Cramer's rule).
Cramer(A, rhs) ==
    LET d == Det(A) IN [j \in 1..Len(A) |-> Rat(Det(ReplaceCol(A, j, rhs)), d)]
\* What the solver may return for a system that has no unique solution, by the
\* ways the result meets the acceptance test: every point coordinate inside the
\* unit interval with the value outside it, a point coordinate above 1, a NaN.
ArbitraryResults(n) ==
    { [i \in 1..n |-> IF i = n THEN <<2, 1>> ELSE <<1, 2>>],
      [i \in 1..n |-> IF i = n - 1 THEN <<2, 1>> ELSE <<1, 2>>],
      [i \in 1..n |-> IF i = 1 THEN NaN ELSE <<1, 2>>] }
\* The solver's possible results: the solution where the system is square and
\* nonsingular, some vector otherwise (underdetermined or singular systems).
SolveOutcomes(A, rhs) ==
    IF Len(A) = Len(A[1]) /\ Det(A) # 0 THEN {Cramer(A, rhs)}
    ELSE ArbitraryResults(Len(A[1]))

---------------------------------------------------------------------------
(* SubsetEnumerator(k, lower, upper): the size-k subsets of [lower, upper)  *)
(* in lexicographic order.                                                 *)
EnumReset(k, lower) == [i \in 1..k |-> lower + i - 1]
EnumIsValid(e, upper) == e[Len(e)] < upper
\* The rightmost position (0-based) not yet at its limit, or position 0.
EnumLowest(e, upper) ==
    LET k == Len(e)
        free == {c \in 2..k : e[c] # upper - 1 - (k - c)}
    IN IF free = {} THEN 0 ELSE (CHOOSE c \in free : \A d \in free : d <= c) - 1
\* The next subset: the lowest changed position is incremented, the ones after
\* it follow consecutively.
EnumAdvance(e, upper) ==
    LET lo == EnumLowest(e, upper) + 1
    IN [i \in 1..Len(e) |-> IF i < lo THEN e[i] ELSE e[lo] + 1 + (i - lo)]

---------------------------------------------------------------------------
(* findVerticesNaive.                                                      *)
alphasSize == Len(olds)
\* The upper bound the enumerator is constructed with: alphas and boundaries.
EnumUpper == alphasSize + S
\* An entry of the matrix that no statement has written yet.
Uninit == 99

\* if (alphasSize == 0) return vertices;
NoAlphasNever(n) == n < 0
NoAlphas(n) == n = 0

\* m.row(counter).head(S) = alpha; m.row(counter)[S] = -1;
AlphaRowPlus(alpha) == Append(alpha, 1)
AlphaRow(alpha) == Append(alpha, -1)

\* One pass of the loop over the subset's positions i..size-1 (0-based), on
\* st = [m, boundary, counter].
RECURSIVE FillRows(_, _, _)
FillRows(i, e, st) ==
    IF i >= Len(e) THEN st
    ELSE LET index == e[i+1] IN
         IF index < alphasSize
         THEN FillRows(i + 1, e,
                  [st EXCEPT !.m[st.counter + 1] = AlphaRow(olds[index + 1]),
                             !.counter = st.counter + 1])
         ELSE FillRows(i + 1, e,
                  [st EXCEPT !.boundary[index - alphasSize + 1] = 0])

\* The acceptance test on result.head(S): every coordinate within [0, 1].
AcceptNonNegative(r) == \A i \in 1..S : RatLeq(<<0, 1>>, r[i])
Accept(r) == \A i \in 1..S : RatLeq(<<0, 1>>, r[i]) /\ RatLeq(r[i], <<1, 1>>)

\* if ((*enumerator)[last] >= alphasSize) break;
BreakNever(e, l, n) == FALSE
BreakCond(e, l, n) == e[l+1] >= n

InitIdleFV ==
    /\ S = 2 /\ olds = <<>> /\ news = <<>> /\ pc = "idle"
    /\ newVIt = 0 /\ enumBuilt = FALSE /\ ids = <<>> /\ last = 0
    /\ m = <<>> /\ boundary = <<>> /\ b = <<>> /\ counter = 0
    /\ result = <<>> /\ vertices = <<>>
    /\ sysA = <<>> /\ sysB = <<>> /\ evaluated = {} /\ solves = 0 /\ evals = 0
    /\ topRow = 0 /\ exitVia = "none"

InitIdleOV ==
    /\ p = <<>> /\ pv = <<>> /\ ndebug = FALSE /\ opc = "idle"
    /\ lp = <<>> /\ it = 0 /\ lpBuilt = FALSE /\ solution = FALSE /\ retval = <<>>

InitFV ==
    /\ S \in Dims
    /\ olds \in SeqsUpTo(Planes(S), MaxOld)
    /\ news \in SeqsUpTo(Planes(S), MaxNew)
    /\ pc = "call"
    /\ newVIt = 0 /\ enumBuilt = FALSE /\ ids = <<>> /\ last = 0
    /\ m = <<>> /\ boundary = <<>> /\ b = <<>> /\ counter = 0
    /\ result = <<>> /\ vertices = <<>>
    /\ sysA = <<>> /\ sysB = <<>> /\ evaluated = {} /\ solves = 0 /\ evals = 0
    /\ topRow = 0 /\ exitVia = "none"
    /\ InitIdleOV

\* Lines 42-64: the early return, or the construction of the enumerator and of
\* the matrix and vectors.
Call ==
    /\ pc = "call"
    /\ IF NoAlphas(alphasSize)
       THEN /\ pc' = "done"
            /\ UNCHANGED <<newVIt, enumBuilt, ids, m, boundary, b>>
       ELSE /\ enumBuilt' = TRUE
            /\ ids' = EnumReset(S - 1, 0)
            /\ m' = [r \in 1..S+1 |->
                        [c \in 1..S+1 |-> IF r = 1 /\ c = S+1 THEN -1 ELSE Uninit]]
            /\ boundary' = [c \in 1..S+1 |-> IF c = S+1 THEN 0 ELSE Uninit]
            /\ b' = [r \in 1..S+1 |-> 0]
            /\ newVIt' = 1
            /\ pc' = "for"
    /\ UNCHANGED <<S, olds, news, last, counter, result, vertices, sysA, sysB,
                   evaluated, solves, evals, topRow, exitVia>>
    /\ UNCHANGED ovVars

\* Lines 67-73: the head of the outer loop; line 120 when the range is exhausted.
ForNext ==
    /\ pc = "for"
    /\ IF newVIt > Len(news)
       THEN /\ pc' = "done"
            /\ UNCHANGED <<m, ids, last, evaluated, evals>>
       ELSE /\ m' = [m EXCEPT ![1] = [c \in 1..S+1 |->
                                         IF c <= S THEN news[newVIt][c] ELSE m[1][c]]]
            /\ ids' = EnumReset(S - 1, 0)
            /\ last' = 0
            /\ evaluated' = {}
            /\ evals' = 0
            /\ pc' = "while"
    /\ UNCHANGED <<S, olds, news, newVIt, enumBuilt, boundary, b, counter, result,
                   vertices, sysA, sysB, solves, topRow, exitVia>>
    /\ UNCHANGED ovVars

\* Lines 74-97: the loop condition, then the rows of the system for the
\* current subset.
Build ==
    /\ pc = "while"
    /\ IF ~EnumIsValid(ids, EnumUpper)
       THEN /\ pc' = "for"
            /\ newVIt' = newVIt + 1
            /\ exitVia' = "invalid"
            /\ UNCHANGED <<m, boundary, b, counter, topRow>>
       ELSE LET st == FillRows(last, ids,
                         [m |-> m,
                          boundary |-> [c \in 1..S+1 |-> IF c <= S THEN 1 ELSE boundary[c]],
                          counter |-> 1])
            IN /\ m' = [st.m EXCEPT ![st.counter + 1] = st.boundary]
               /\ boundary' = st.boundary
               /\ b' = [b EXCEPT ![st.counter + 1] = 1]
               /\ counter' = st.counter + 1
               /\ topRow' = IF st.counter > topRow THEN st.counter ELSE topRow
               /\ pc' = "solve"
               /\ UNCHANGED <<newVIt, exitVia>>
    /\ UNCHANGED <<S, olds, news, enumBuilt, ids, last, result, vertices, sysA, sysB,
                   evaluated, solves, evals>>
    /\ UNCHANGED ovVars

\* Lines 101-107: the solve of the first counter rows, and the acceptance test.
Solve ==
    /\ pc = "solve"
    /\ sysA' = SubSeq(m, 1, counter)
    /\ sysB' = SubSeq(b, 1, counter)
    /\ \E r \in SolveOutcomes(SubSeq(m, 1, counter), SubSeq(b, 1, counter)) :
          /\ result' = r
          /\ vertices' = IF Accept(r)
                         THEN Append(vertices, <<SubSeq(r, 1, S), r[S+1]>>)
                         ELSE vertices
    /\ b' = [b EXCEPT ![counter] = 0]
    /\ evaluated' = evaluated \cup {ids}
    /\ solves' = solves + 1
    /\ evals' = evals + 1
    /\ pc' = "advance"
    /\ UNCHANGED <<S, olds, news, newVIt, enumBuilt, ids, last, m, boundary, counter,
                   topRow, exitVia>>
    /\ UNCHANGED ovVars

\* Lines 111-117: the advance of the enumerator and the break.
Advance ==
    /\ pc = "advance"
    /\ last' = EnumLowest(ids, EnumUpper)
    /\ ids' = EnumAdvance(ids, EnumUpper)
    /\ IF BreakCond(ids', last', alphasSize)
       THEN /\ pc' = "for"
            /\ newVIt' = newVIt + 1
            /\ exitVia' = "break"
       ELSE /\ pc' = "while"
            /\ UNCHANGED <<newVIt, exitVia>>
    /\ UNCHANGED <<S, olds, news, enumBuilt, m, boundary, b, counter, result, vertices,
                   sysA, sysB, evaluated, solves, evals, topRow>>
    /\ UNCHANGED ovVars

NextFV == Call \/ ForNext \/ Build \/ Solve \/ Advance
SpecFV == InitFV /\ [][NextFV]_vars

---------------------------------------------------------------------------
(* The LP capability (AIToolbox/LP.hpp): an objective row and direction,    *)
(* variables bounded below by 0 unless declared unbounded, constraint rows, *)
(* and solve. Rows hold numerators over Grid. The solve is exact, by        *)
(* Fourier-Motzkin elimination of the variables from                        *)
(*     z - objective.h <= 0,   row.h <= Grid * rhs (each constraint).       *)
LPNew(n) ==
    [n |-> n, row |-> [i \in 1..n |-> 0], objective |-> [i \in 1..n |-> 0],
     maximize |-> FALSE, unbounded |-> {}, constraints |-> <<>>]
LPSetRow(l, r) == [l EXCEPT !.row = r]
LPSetObjective(l, max) == [l EXCEPT !.objective = l.row, !.maximize = max]
LPSetUnbounded(l, s) == [l EXCEPT !.unbounded = l.unbounded \cup {s}]
LPPushRow(l, kind, rhs) ==
    [l EXCEPT !.constraints = Append(l.constraints,
                                     [row |-> l.row, kind |-> kind, rhs |-> rhs])]

Neg(r) == [i \in 1..Len(r) |-> -r[i]]
\* The inequalities (coefficients of h, coefficient of z, right-hand side) of l.
LPRows(l) ==
    LET n == l.n
        obj == IF l.maximize THEN l.objective ELSE Neg(l.objective)
        leq(c) == c.row \o <<0, Grid * c.rhs>>
        geq(c) == Neg(c.row) \o <<0, -(Grid * c.rhs)>>
        cons == {l.constraints[i] : i \in 1..Len(l.constraints)}
    IN {Neg(obj) \o <<1, 0>>}
       \cup {[i \in 1..n+2 |-> IF i = s + 1 THEN -1 ELSE 0] : s \in (0..n-1) \ l.unbounded}
       \cup {leq(c) : c \in {d \in cons : d.kind \in {"LessEqual", "Equal"}}}
       \cup {geq(c) : c \in {d \in cons : d.kind \in {"GreaterEqual", "Equal"}}}
RowGCD(r) ==
    LET f[i \in 0..Len(r)] == IF i = 0 THEN 0 ELSE GCD(f[i-1], Abs(r[i]))
    IN f[Len(r)]
RowNorm(r) ==
    LET g == RowGCD(r) IN IF g <= 1 THEN r ELSE [i \in 1..Len(r) |-> r[i] \div g]
\* The projection of rows along variable k.
Eliminate(rows, k) ==
    {r \in rows : r[k] = 0}
    \cup {RowNorm([i \in 1..Len(r1) |-> r1[i] * (-r2[k]) + r2[i] * r1[k]]) :
              r1 \in {r \in rows : r[k] > 0}, r2 \in {r \in rows : r[k] < 0}}
RECURSIVE EliminateTo(_, _)
EliminateTo(rows, k) ==
    IF k = 0 THEN rows ELSE EliminateTo(Eliminate(rows, k), k - 1)
\* lp.solve: the status, and the optimal objective where there is one.
LPSolve(l) ==
    LET zs == EliminateTo(LPRows(l), l.n)
        ups == {r \in zs : r[l.n + 1] > 0}
        best == CHOOSE r \in ups :
                    \A q \in ups : r[l.n + 2] * q[l.n + 1] <= q[l.n + 2] * r[l.n + 1]
        sg == IF l.maximize THEN 1 ELSE -1
    IN IF \E r \in zs : r[l.n + 1] = 0 /\ r[l.n + 2] < 0
       THEN [status |-> "infeasible", objective |-> NaN]
       ELSE IF ups = {}
       THEN [status |-> "unbounded", objective |-> NaN]
       ELSE [status |-> "optimal",
             objective |-> Rat(sg * best[l.n + 2], best[l.n + 1] * Grid)]

---------------------------------------------------------------------------
(* computeOptimisticValue.                                                 *)
vertexNumber == Len(pv)
\* The points of the simplex of dimension 2 on the grid, as numerators.
SimplexPoints == {<<a, Grid - a>> : a \in 0..Grid}
\* The values known pairs carry.
Values == {-1, 2, 4}
\* What an unset double may hold.
GarbageVals == {<<-9, 1>>, <<0, 1>>, <<9, 1>>, NaN}

\* if (vertexNumber == 0) return 0.0;
NoVerticesNever(n) == n < 0
NoVerticesOrOne(n) == n <= 1
NoVertices(n) == n = 0

\* for (size_t s = 0; s < S; ++s) lp.setUnbounded(s);
UnboundedVarsNone(n) == {}
UnboundedVars(n) == 0..n-1
RECURSIVE SetUnboundedAll(_, _)
SetUnboundedAll(l, ss) ==
    IF ss = {} THEN l
    ELSE LET s == CHOOSE x \in ss : TRUE
         IN SetUnboundedAll(LPSetUnbounded(l, s), ss \ {s})

\* lp.row = it->first; lp.pushRow(LP::Constraint::LessEqual, it->second);
PushPair(l, pair) == LPPushRow(LPSetRow(l, pair[1]), "LessEqual", pair[2])
RECURSIVE PushPairs(_, _, _)
PushPairs(l, K, i) == IF i > Len(K) THEN l ELSE PushPairs(PushPair(l, K[i]), K, i + 1)

\* The LP lines 148-185 build for point pt and pairs K.
BuildLP(pt, K) ==
    PushPairs(SetUnboundedAll(LPSetObjective(LPSetRow(LPNew(Len(pt)), pt), TRUE),
                              UnboundedVars(Len(pt))),
              K, 1)

\* The value computeOptimisticValue returns for pt and K when lp.solve succeeds
\* (0 for no pairs, else the optimal objective).
OptimisticValue(pt, K) ==
    IF NoVertices(Len(K)) THEN <<0, 1>> ELSE LPSolve(BuildLP(pt, K)).objective

InitOV ==
    /\ InitIdleFV
    /\ p \in SimplexPoints
    /\ pv \in SeqsUpTo(SimplexPoints \X Values, MaxPairs)
    /\ ndebug \in BOOLEAN
    /\ opc = "call"
    /\ lp = <<>> /\ it = 0 /\ lpBuilt = FALSE /\ solution = FALSE /\ retval = <<>>

\* Lines 144-148: the early return, or the construction of the LP.
OVCall ==
    /\ opc = "call"
    /\ IF NoVertices(vertexNumber)
       THEN /\ retval' = <<0, 1>>
            /\ opc' = "returned"
            /\ UNCHANGED <<lp, lpBuilt>>
       ELSE /\ lp' = LPNew(Len(p))
            /\ lpBuilt' = TRUE
            /\ opc' = "objective"
            /\ UNCHANGED retval
    /\ UNCHANGED <<p, pv, ndebug, it, solution>>
    /\ UNCHANGED fvVars

\* Lines 174-179: the objective, and every variable declared unbounded.
OVObjective ==
    /\ opc = "objective"
    /\ lp' = SetUnboundedAll(LPSetObjective(LPSetRow(lp, p), TRUE), UnboundedVars(Len(p)))
    /\ it' = 1
    /\ opc' = "constraints"
    /\ UNCHANGED <<p, pv, ndebug, lpBuilt, solution, retval>>
    /\ UNCHANGED fvVars

\* Lines 182-185: one pass of the loop over the known pairs.
OVPushRow ==
    /\ opc = "constraints"
    /\ IF it > Len(pv)
       THEN /\ opc' = "solve"
            /\ UNCHANGED <<lp, it>>
       ELSE /\ lp' = PushPair(lp, pv[it])
            /\ it' = it + 1
            /\ UNCHANGED opc
    /\ UNCHANGED <<p, pv, ndebug, lpBuilt, solution, retval>>
    /\ UNCHANGED fvVars

\* Lines 187-192: the solve, which sets retval where there is a solution,
\* and the assert, which aborts unless NDEBUG is defined.
OVSolve ==
    /\ opc = "solve"
    /\ LET res == LPSolve(lp) IN
          /\ solution' = (res.status = "optimal")
          /\ IF res.status = "optimal"
             THEN retval' = res.objective
             ELSE retval' \in GarbageVals
          /\ opc' = IF res.status = "optimal" \/ ndebug THEN "checked" ELSE "aborted"
    /\ UNCHANGED <<p, pv, ndebug, lp, it, lpBuilt>>
    /\ UNCHANGED fvVars

\* Line 194: return retval.
OVReturn ==
    /\ opc = "checked"
    /\ opc' = "returned"
    /\ UNCHANGED <<p, pv, ndebug, lp, it, lpBuilt, solution, retval>>
    /\ UNCHANGED fvVars

NextOV == OVCall \/ OVObjective \/ OVPushRow \/ OVSolve \/ OVReturn
SpecOV == InitOV /\ [][NextOV]_vars

---------------------------------------------------------------------------
(* Consistency of the model with itself.                                   *)
\* No entry handed to the solver is one that was never written.
NoUninitRead ==
    \A r \in 1..Len(sysA) : \A c \in 1..Len(sysA[r]) : sysA[r][c] # Uninit
\* The LP the steps build is the one BuildLP describes.
StepsBuildLP == opc \in {"solve", "checked", "aborted"} => lp = BuildLP(p, pv)

---------------------------------------------------------------------------
(* Properties.                                                             *)
Range(s) == {s[i] : i \in 1..Len(s)}
InUnitInterval(r) == r[2] > 0 /\ 0 <= r[1] /\ r[1] <= r[2]
PointInUnit(pt) == \A j \in 1..Len(pt) : InUnitInterval(pt[j])
\* The inner loop for hyperplane newVIt - 1 has just been left.
LoopLeft == pc = "for" /\ newVIt > 1
\* The size-k subsets of 0..n-1, as increasing sequences.
AllSubsets(k, n) == {e \in [1..k -> 0..n-1] : \A i \in 1..k-1 : e[i] < e[i+1]}
RECURSIVE Binom(_, _)
Binom(n, k) == IF k = 0 THEN 1 ELSE IF n = 0 THEN 0 ELSE Binom(n-1, k-1) + Binom(n-1, k)

\* C1: every candidate of the returned list has each of its S point coordinates
\* in [0,1], whatever the solver returned (a list that only grows never holds a
\* result with a coordinate outside [0,1]).
C1_AcceptedInUnit ==
    \A i \in 1..Len(vertices) :
        Len(vertices[i][1]) = S /\ PointInUnit(vertices[i][1])
\* A system without a unique solution got a result with a point coordinate
\* outside [0,1], which was left out, after another result was accepted.
C1_Witness ==
    /\ pc = "advance"
    /\ (Len(sysA) < S + 1 \/ Det(sysA) = 0)
    /\ ~PointInUnit(SubSeq(result, 1, S))
    /\ Len(vertices) > 0
    /\ \A i \in 1..Len(vertices) : vertices[i][1] # SubSeq(result, 1, S)

\* The scenario of C2: h = (3, 1) against the old hyperplane (1, 2), returned.
C2_Scenario ==
    S = 2 /\ news = << <<3, 1>> >> /\ olds = << <<1, 2>> >> /\ pc = "done"
\* C2 as stated: the list holds at least three candidates, the two boundary
\* vertices (coordinate 0 fixed to 0, coordinate 1 fixed to 0) and the
\* intersection point, each within [0,1] and summing to 1.
C2_Original ==
    C2_Scenario =>
        /\ Len(vertices) >= 3
        /\ \E i \in 1..Len(vertices) : vertices[i][1][1] = <<0, 1>>
        /\ \E i \in 1..Len(vertices) : vertices[i][1][2] = <<0, 1>>
        /\ \E i \in 1..Len(vertices) : vertices[i][1] = << <<1, 3>>, <<2, 3>> >>
        /\ \A i \in 1..Len(vertices) :
               PointInUnit(vertices[i][1]) /\ RatSum(vertices[i][1]) = <<1, 1>>
\* C2 amended: the list holds exactly one candidate, the intersection point
\* (1/3, 2/3) of h with the old hyperplane, of value 5/3, with coordinates in
\* [0,1] that sum to 1; no boundary vertex is in the list.
C2_Amended ==
    C2_Scenario =>
        /\ Len(vertices) = 1
        /\ vertices[1][1] = << <<1, 3>>, <<2, 3>> >>
        /\ vertices[1][2] = <<5, 3>>
        /\ PointInUnit(vertices[1][1]) /\ RatSum(vertices[1][1]) = <<1, 1>>
C2_Witness == C2_Scenario /\ solves = 1 /\ Len(vertices) = 1

\* C3: when lp.solve returns no solution, the function never gets to return a
\* number: past the assert, the LP has been solved.
C3_FailureSurfaced ==
    (lpBuilt /\ opc \in {"checked", "returned"}) => solution

\* C4: with no old hyperplane the list returned is empty, the enumerator is
\* never constructed and no linear solve is performed.
C4_EmptyContext ==
    olds = <<>> =>
        /\ pc \in {"call", "done"}
        /\ vertices = <<>> /\ ~enumBuilt /\ ids = <<>> /\ solves = 0
C4_Witness == olds = <<>> /\ news # <<>> /\ pc = "done"

\* C5: with no known pair the function returns 0 for any query point, without
\* building or solving an LP.
C5_EmptyKnown ==
    (pv = <<>> /\ opc # "call") =>
        /\ opc = "returned" /\ retval = <<0, 1>>
        /\ ~lpBuilt /\ lp = <<>> /\ ~solution
C5_Witness == pv = <<>> /\ opc = "returned" /\ p \in SimplexPoints

\* The call for pt and K returns a bound: no pair, or an LP with an optimum.
ReturnsBound(pt, K) == K = <<>> \/ LPSolve(BuildLP(pt, K)).status = "optimal"
C7_AllMixedSubsetsSolved ==
    LoopLeft =>
        /\ ids[1] >= alphasSize
        /\ \A e \in AllSubsets(S - 1, EnumUpper) : e[1] < alphasSize => e \in evaluated
        /\ evals = Cardinality(evaluated)

\* The system a rebuild from scratch gives for hyperplane h and subset e.
ScratchRows(h, e) ==
    LET picked == SelectSeq(e, LAMBDA x : x < alphasSize)
    IN << Append(h, -1) >>
       \o [i \in 1..Len(picked) |-> Append(olds[picked[i] + 1], -1)]
       \o << [c \in 1..S+1 |->
                 IF c <= S /\ (c - 1 + alphasSize) \notin Range(e) THEN 1 ELSE 0] >>
ScratchRhs(e) ==
    LET n == Cardinality({x \in Range(e) : x < alphasSize}) + 2
    IN [r \in 1..n |-> IF r = n THEN 1 ELSE 0]
\* C8: every system handed to the solver is the one a rebuild from scratch
\* gives for the subset: the new hyperplane, one row per old-hyperplane index
\* of the whole subset, the boundary row; right-hand side 0 but 1 in the last row.
C8_SystemIsScratch ==
    pc = "advance" =>
        /\ sysA = ScratchRows(news[newVIt], ids)
        /\ sysB = ScratchRhs(ids)

\* The LP has been solved (or the call has aborted on its failure).
PastSolve == lpBuilt /\ opc \in {"checked", "aborted", "returned"}
\* p is a convex combination of the known vertices (dimension 2: it lies
\* between two of them).
InHull(pt, K) ==
    \E i, j \in 1..Len(K) : K[i][1][1] <= pt[1] /\ pt[1] <= K[j][1][1]
DoneOrCanStep ==
    \/ pc = "done"
    \/ pc = "solve" /\ SolveOutcomes(SubSeq(m, 1, counter), SubSeq(b, 1, counter)) # {}
    \/ ENABLED (Call \/ ForNext \/ Build \/ Advance)

\* C10: for S >= 2 and at least one old hyperplane the function terminates
\* (it is done or can take a step, and the solves per new hyperplane are
\* bounded); the inner loop does between 1 and C(|old|+S, S-1) solves and is
\* left through the break with the enumerator still valid; no row index
\* written exceeds S.
C10_Terminates ==
    (S >= 2 /\ alphasSize >= 1) =>
        /\ DoneOrCanStep
        /\ evals <= Binom(EnumUpper, S - 1)
        /\ newVIt <= Len(news) + 1
        /\ topRow <= S
        /\ LoopLeft =>
              /\ exitVia = "break" /\ EnumIsValid(ids, EnumUpper)
              /\ evals >= 1
C10_Witness ==
    /\ pc = "done" /\ alphasSize >= S /\ S = 3 /\ newVIt = Len(news) + 1
    /\ exitVia = "break" /\ evals >= 2 /\ topRow = S

====
